---- MODULE Spec2Model ----
(***************************************************************************)
(* Monthly delta computation of the Westfalen-Weser scripts.               *)
(*                                                                         *)
(* The repository holds three versions of one script:                      *)
(*   Erweitert   (WestfalenWeser_Monatsberechnung_Vormonat_Erweitert.js,   *)
(*                lines 1-128)     getDeltaWithFallback with Erstmessung   *)
(*                                 and "Keine Aenderung" results, net      *)
(*   kommentiert (same file, lines 130-205)   getDeltaMeasures             *)
(*   Einzelwert  (unnamed/part_000)           getDeltaWithFallback that    *)
(*                                 falls back to the first month value     *)
(*                                                                         *)
(* Units.  A time stamp is held in seconds (the source's milliseconds are  *)
(* all multiples of 1000 and exceed the 32-bit integers of TLC), a meter    *)
(* value in thousandths of a kWh, so that toFixed(2) has digits to round.  *)
(* JavaScript numbers are modelled as exact decimals.                      *)
(*                                                                         *)
(* A JavaScript value is a record with a field "type".  Info strings are   *)
(* written in ASCII (ae, ue, - for the umlauts and the dash).              *)
(***************************************************************************)
EXTENDS Integers, Sequences, FiniteSets, TLC

VARIABLES
  feed,          \* top-level array `feed`, as the caller sees it
  consumption,   \* top-level array `consumption`, as the caller sees it
  year,          \* top-level `const year`  (read by getDeltaWithFallback)
  month,         \* top-level `const month` (read by getDeltaWithFallback)
  argYear,       \* third argument of the last calculateMonthlyConsumption call
  argMonth,      \* fourth argument of the last calculateMonthlyConsumption call
  called,        \* which version's calculateMonthlyConsumption ran last
  result         \* top-level `const result`

vars == <<feed, consumption, year, month, argYear, argMonth, called, result>>

\* Longest series drawn for `feed`.
MaxLen == 3

----------------------------------------------------------------------------
(* JavaScript values *)

Undefined == [type |-> "undefined"]

TypeError == [type |-> "TypeError"]

Num(n) == [type |-> "number", num |-> n]

Arr(s) == [type |-> "array", items |-> s]

Messpunkt(ts, value) == [ts |-> ts, value |-> value]

----------------------------------------------------------------------------
(* Date: new Date(ts), getUTCFullYear, getUTCMonth (ECMAScript 21.4.1)      *)

Day(t) == t \div 86400

DayFromYear(y) ==
  365 * (y - 1970) + ((y - 1969) \div 4) - ((y - 1901) \div 100)
    + ((y - 1601) \div 400)

InLeapYear(y) == DayFromYear(y + 1) - DayFromYear(y) = 366

YearFromTime(t) ==
  CHOOSE y \in (1970 + (Day(t) \div 366)) .. (1970 + (Day(t) \div 365)) :
    DayFromYear(y) <= Day(t) /\ Day(t) < DayFromYear(y + 1)

MonthFromTime(t) ==
  LET y == YearFromTime(t)
      d == Day(t) - DayFromYear(y)
      l == IF InLeapYear(y) THEN 1 ELSE 0
  IN  IF d < 31 THEN 0
      ELSE IF d < 59 + l THEN 1
      ELSE IF d < 90 + l THEN 2
      ELSE IF d < 120 + l THEN 3
      ELSE IF d < 151 + l THEN 4
      ELSE IF d < 181 + l THEN 5
      ELSE IF d < 212 + l THEN 6
      ELSE IF d < 243 + l THEN 7
      ELSE IF d < 273 + l THEN 8
      ELSE IF d < 304 + l THEN 9
      ELSE IF d < 334 + l THEN 10
      ELSE 11

Date(ts) == [type |-> "Date", time |-> ts]

getUTCFullYear(date) == YearFromTime(date.time)

\* Variant: the month in local time one hour east of UTC (getMonth)
getUTCMonth_localTime(date) == MonthFromTime(date.time + 3600)

getUTCMonth(date) == MonthFromTime(date.time)

----------------------------------------------------------------------------
(* Number.prototype.toFixed(2) and parseFloat                               *)

\* Variant: the third decimal is cut off
toFixed_truncated(x) ==
  LET a == IF x < 0 THEN -x ELSE x
  IN  [neg |-> x < 0, n |-> a \div 10]

\* toFixed(2): the sign is split off, then n with n/100 nearest to |x|,
\* the larger n on a tie; the string is sign, n div 100, ".", n mod 100.
toFixed(x) ==
  LET a == IF x < 0 THEN -x ELSE x
  IN  [neg |-> x < 0, n |-> (a + 5) \div 10]

\* parseFloat of such a string; "-0.00" parses to -0, which === 0.
parseFloat(s) == IF s.neg THEN -(10 * s.n) ELSE 10 * s.n

----------------------------------------------------------------------------
(* Array.prototype.sort (stable), pop, index; filter is SelectSeq           *)

\* the comparator (a, b) => a.ts - b.ts
byTs(a, b) == a.ts - b.ts

\* sort is stable: an element goes behind every element that does not
\* compare greater than it
RECURSIVE insert(_, _)
insert(s, e) ==
  IF s = <<>> \/ byTs(s[Len(s)], e) <= 0
  THEN Append(s, e)
  ELSE Append(insert(SubSeq(s, 1, Len(s) - 1), e), s[Len(s)])

RECURSIVE sort(_)
sort(s) ==
  IF s = <<>> THEN <<>>
  ELSE insert(sort(SubSeq(s, 1, Len(s) - 1)), s[Len(s)])

\* s[i] with JavaScript's 0-based index: undefined outside the array
at(s, i) == IF 0 <= i /\ i < Len(s) THEN s[i + 1] ELSE Undefined

pop(s) == at(s, Len(s) - 1)

----------------------------------------------------------------------------
(* Version Erweitert (lines 1-128)                                          *)

\* lines 42-45: a new array of new objects {...entry, date: new Date(entry.ts)}
timestampedValuesWithDate(timestampedValues) ==
  [i \in 1 .. Len(timestampedValues.items) |->
     [ts    |-> timestampedValues.items[i].ts,
      value |-> timestampedValues.items[i].value,
      date  |-> Date(timestampedValues.items[i].ts)]]

\* Variant: the sort is left out
sorted_notSorted(timestampedValues) == timestampedValuesWithDate(timestampedValues)

\* line 47: sort works in place on the array that map built
sorted(timestampedValues) == sort(timestampedValuesWithDate(timestampedValues))

\* Variant: the sort runs on the argument (timestampedValues.sort(...))
arraysAfterSort_inPlace(timestampedValues) ==
  LET mapped == [arg      |-> timestampedValues.items,
                 withDate |-> timestampedValuesWithDate(timestampedValues)]
  IN  [mapped EXCEPT !.arg = sort(@), !.withDate = sort(@)]

\* The arrays after lines 42-47: map (42) allocates withDate, sort (47)
\* sorts withDate in place and returns it; the spreads (52, 56) copy again.
arraysAfterSort(timestampedValues) ==
  LET mapped == [arg      |-> timestampedValues.items,
                 withDate |-> timestampedValuesWithDate(timestampedValues)]
  IN  [mapped EXCEPT !.withDate = sort(@)]

\* The argument array as the caller sees it after the call
timestampedValuesAfter(timestampedValues) ==
  IF timestampedValues = Undefined \/ Len(timestampedValues.items) = 0
  THEN timestampedValues
  ELSE Arr(arraysAfterSort(timestampedValues).arg)

\* lines 49-50; `year` and `month` are the top-level constants
prevMonth == IF month = 0 THEN 11 ELSE month - 1

\* Variant: December of the same year
prevYear_sameYear == year

prevYear == IF month = 0 THEN year - 1 ELSE year

\* lines 52-54
lastOfPrev(timestampedValues) ==
  pop(SelectSeq(sorted(timestampedValues),
             LAMBDA e : getUTCFullYear(e.date) = prevYear
                        /\ getUTCMonth(e.date) = prevMonth))

\* lines 56-57
currentMonthtimestampedValues(timestampedValues) ==
  SelectSeq(sorted(timestampedValues),
         LAMBDA e : getUTCFullYear(e.date) = year /\ getUTCMonth(e.date) = month)

\* Variant: the first sample of the month
lastOfCurrent_first(timestampedValues) ==
  at(currentMonthtimestampedValues(timestampedValues), 0)

\* Variant: the last sample of the whole series
lastOfCurrent_ofSeries(timestampedValues) == pop(sorted(timestampedValues))

\* line 59
lastOfCurrent(timestampedValues) ==
  at(currentMonthtimestampedValues(timestampedValues),
     Len(currentMonthtimestampedValues(timestampedValues)) - 1)

\* line 78; reading .value of undefined throws
deltaTimestampedValues(last, prev) ==
  IF last = Undefined \/ prev = Undefined
  THEN TypeError
  ELSE Num(parseFloat(toFixed(last.value - prev.value)))

\* Variant: the test for a missing month before comes ahead of the test for
\* a single sample
getDeltaWithFallback_firstAhead(timestampedValues) ==
  IF timestampedValues = Undefined \/ Len(timestampedValues.items) = 0
  THEN Num(0)
  ELSE
    LET current == currentMonthtimestampedValues(timestampedValues)
        last    == lastOfCurrent(timestampedValues)
        prev    == lastOfPrev(timestampedValues)
        delta   == deltaTimestampedValues(last, prev)
    IN  IF last = Undefined THEN Num(0)
        ELSE IF prev = Undefined
        THEN [type  |-> "object",
              info  |-> "Erstmessung - vollstaendiger Monatswert uebernommen",
              value |-> last.value]
        ELSE IF Len(current) = 1
        THEN [type      |-> "object",
              info      |-> "Nur ein Messwert im Monat vorhanden",
              value     |-> at(current, 0).value,
              timestamp |-> at(current, 0).ts]
        ELSE IF delta = Num(0)
        THEN [type  |-> "object",
              info  |-> "Keine Aenderung im Zeitraum festgestellt",
              value |-> 0]
        ELSE delta

\* lines 39-88
getDeltaWithFallback(timestampedValues) ==
  IF timestampedValues = Undefined \/ Len(timestampedValues.items) = 0
  THEN Num(0)
  ELSE
    LET current == currentMonthtimestampedValues(timestampedValues)
        last    == lastOfCurrent(timestampedValues)
        prev    == lastOfPrev(timestampedValues)
        delta   == deltaTimestampedValues(last, prev)
    IN  IF last = Undefined THEN Num(0)
        ELSE IF Len(current) = 1
        THEN [type      |-> "object",
              info      |-> "Nur ein Messwert im Monat vorhanden",
              value     |-> at(current, 0).value,
              timestamp |-> at(current, 0).ts]
        ELSE IF prev = Undefined
        THEN [type  |-> "object",
              info  |-> "Erstmessung - vollstaendiger Monatswert uebernommen",
              value |-> last.value]
        ELSE IF delta = Num(0)
        THEN [type  |-> "object",
              info  |-> "Keine Aenderung im Zeitraum festgestellt",
              value |-> 0]
        ELSE delta

\* lines 107-108: typeof r === "object" ? r.value ?? 0 : r
valueOf(r) ==
  IF r.type = "object"
  THEN IF "value" \in DOMAIN r THEN r.value ELSE 0
  ELSE r.num

\* Variant: feed minus consumption
net_swapped(consumptionValue, feedValue) ==
  parseFloat(toFixed(feedValue - consumptionValue))

\* line 110
net(consumptionValue, feedValue) ==
  parseFloat(toFixed(consumptionValue - feedValue))

\* lines 103-117; the signature has two parameters, a third and fourth
\* argument of a call are dropped
calculateMonthlyConsumption(feedArg, consumptionArg) ==
  LET feedResult        == getDeltaWithFallback(feedArg)
      consumptionResult == getDeltaWithFallback(consumptionArg)
  IN  IF TypeError \in {feedResult, consumptionResult}
      THEN TypeError
      ELSE [type                |-> "object",
            feed_monthly        |-> feedResult,
            consumption_monthly |-> consumptionResult,
            net_consumption     |-> net(valueOf(consumptionResult),
                                        valueOf(feedResult))]

----------------------------------------------------------------------------
(* Version Einzelwert (unnamed/part_000); its lines 39-57 are those of      *)
(* the version Erweitert, word for word                                     *)

\* part_000 lines 39-75
getDeltaWithFallback_Einzelwert(timestampedValues) ==
  IF timestampedValues = Undefined \/ Len(timestampedValues.items) = 0
  THEN Num(0)
  ELSE
    LET current        == currentMonthtimestampedValues(timestampedValues)
        firstOfCurrent == at(current, 0)
        last           == lastOfCurrent(timestampedValues)
        prev           == lastOfPrev(timestampedValues)
        start          == IF prev # Undefined THEN prev ELSE firstOfCurrent
    IN  IF Len(current) = 1
        THEN [type      |-> "object",
              info      |-> "Nur ein Messwert vorhanden",
              value     |-> at(current, 0).value,
              timestamp |-> at(current, 0).ts]
        ELSE IF last = Undefined THEN Num(0)
        ELSE deltaTimestampedValues(last, start)

\* part_000 lines 87-92; the parameters year and month are not used
calculateMonthlyConsumption_Einzelwert(feedArg, consumptionArg, yearArg, monthArg) ==
  LET feedResult        == getDeltaWithFallback_Einzelwert(feedArg)
      consumptionResult == getDeltaWithFallback_Einzelwert(consumptionArg)
  IN  IF TypeError \in {feedResult, consumptionResult}
      THEN TypeError
      ELSE [type                |-> "object",
            feed_monthly        |-> feedResult,
            consumption_monthly |-> consumptionResult]

----------------------------------------------------------------------------
(* Version kommentiert (lines 130-205)                                      *)

\* lines 176-182; year and month are the parameters of the enclosing
\* calculateMonthlyConsumption
filtered(timestampedValues, yearArg, monthArg) ==
  IF yearArg \in Int /\ monthArg \in Int
  THEN SelectSeq(timestampedValues.items,
                 LAMBDA entry :
                   getUTCFullYear(Date(entry.ts)) = yearArg
                   /\ getUTCMonth(Date(entry.ts)) = monthArg)
  ELSE timestampedValues.items

\* The arrays after line 186: the sort runs on the copy [...filtered]
arraysAfterCopySort(timestampedValues, yearArg, monthArg) ==
  LET arrays == [arg  |-> timestampedValues.items,
                 copy |-> filtered(timestampedValues, yearArg, monthArg)]
  IN  [arrays EXCEPT !.copy = sort(@)]

\* lines 173-190
getDeltaMeasures(timestampedValues, yearArg, monthArg) ==
  IF timestampedValues = Undefined \/ Len(timestampedValues.items) < 2
  THEN Num(0)
  ELSE
    LET sortedCopy ==
          arraysAfterCopySort(timestampedValues, yearArg, monthArg).copy
    IN  IF Len(filtered(timestampedValues, yearArg, monthArg)) < 2 THEN Num(0)
        ELSE deltaTimestampedValues(at(sortedCopy, Len(sortedCopy) - 1),
                                    at(sortedCopy, 0))

\* The argument array as the caller sees it after getDeltaMeasures
getDeltaMeasuresAfter(timestampedValues, yearArg, monthArg) ==
  IF timestampedValues = Undefined \/ Len(timestampedValues.items) < 2
  THEN timestampedValues
  ELSE Arr(arraysAfterCopySort(timestampedValues, yearArg, monthArg).arg)

\* lines 172-196
calculateMonthlyConsumption_kommentiert(feedArg, consumptionArg, yearArg, monthArg) ==
  LET feed_monthly        == getDeltaMeasures(feedArg, yearArg, monthArg)
      consumption_monthly == getDeltaMeasures(consumptionArg, yearArg, monthArg)
  IN  IF TypeError \in {feed_monthly, consumption_monthly}
      THEN TypeError
      ELSE [type                |-> "object",
            feed_monthly        |-> feed_monthly,
            consumption_monthly |-> consumption_monthly]

----------------------------------------------------------------------------
(* Inputs                                                                   *)

\* lines 19-24
feedSamples ==
  Arr(<<Messpunkt(1740785107, 1578450), Messpunkt(1740786007, 1578450),
        Messpunkt(1740786908, 1578450), Messpunkt(1740787508, 1578450),
        Messpunkt(1743464710, 2156430), Messpunkt(1743465610, 2156430),
        Messpunkt(1743466510, 2156430), Messpunkt(1743467410, 2156430)>>)

\* lines 26-31
consumptionSamples ==
  Arr(<<Messpunkt(1740785107, 93709830), Messpunkt(1740786007, 93716390),
        Messpunkt(1740786908, 93723980), Messpunkt(1740787508, 93726740),
        Messpunkt(1743464710, 116790680), Messpunkt(1743465610, 116803950),
        Messpunkt(1743466510, 116807260), Messpunkt(1743467410, 116815180)>>)

\* Samples at the month boundaries: the last second of December 2024, the
\* first of January 2025, the last of February 2025, the first and the last
\* of March 2025, the last of December 2025.  The values are 0.000, 0.004
\* and 0.015 kWh: their differences are zero, round to zero, round half up
\* and round down, with either sign; two months hold two values under one
\* time stamp.
SamplePool ==
  { Messpunkt(1735689599, 0),
    Messpunkt(1735689600, 4),  Messpunkt(1735689600, 15),
    Messpunkt(1740787199, 4),  Messpunkt(1740787199, 15),
    Messpunkt(1740787200, 0),  Messpunkt(1740787200, 15),
    Messpunkt(1743465599, 4),  Messpunkt(1743465599, 15),
    Messpunkt(1767225599, 15) }

\* every series of at most n samples, and the absent series
SeriesUpTo(n) ==
  {Undefined} \cup {Arr(s) : s \in UNION {[1 .. k -> SamplePool] : k \in 0 .. n}}

\* one series for each shape of result when the month is March 2025
ShapePool ==
  { Undefined,
    Arr(<<Messpunkt(1743465599, 15)>>),
    Arr(<<Messpunkt(1743465599, 15), Messpunkt(1740787200, 4)>>),
    Arr(<<Messpunkt(1743465599, 15), Messpunkt(1740787199, 15),
          Messpunkt(1740787200, 0)>>),
    Arr(<<Messpunkt(1740787200, 15), Messpunkt(1740787199, 15),
          Messpunkt(1743465599, 0)>>),
    Arr(<<Messpunkt(1743465599, 15), Messpunkt(1740787199, 4),
          Messpunkt(1740787200, 0)>>) }

\* January and March 2025; line 120-121 set March 2025
Targets == {<<2025, 0>>, <<2025, 2>>}

----------------------------------------------------------------------------
(* The script: each version calls calculateMonthlyConsumption once.  The    *)
(* top-level year and month are the input the user edits into the script   *)
(* ("Eingabe Jahr und Monat", line 198); they are constants of a run.      *)

Init ==
  /\ \/ feed \in SeriesUpTo(MaxLen) /\ consumption = Arr(<<>>)
     \/ feed \in ShapePool /\ consumption \in ShapePool
     \/ feed = feedSamples /\ consumption = consumptionSamples
  /\ \E t \in Targets : year = t[1] /\ month = t[2]
  /\ argYear = year
  /\ argMonth = month
  /\ called = "none"
  /\ result = Undefined

\* Erweitert line 123: calculateMonthlyConsumption(feed, consumption, y, m)
CallErweitert(y, m) ==
  /\ called = "none"
  /\ result' = calculateMonthlyConsumption(feed, consumption)
  /\ feed' = timestampedValuesAfter(feed)
  /\ consumption' = timestampedValuesAfter(consumption)
  /\ argYear' = y
  /\ argMonth' = m
  /\ called' = "Erweitert"
  /\ UNCHANGED <<year, month>>

\* part_000 line 98
CallEinzelwert(y, m) ==
  /\ called = "none"
  /\ result' = calculateMonthlyConsumption_Einzelwert(feed, consumption, y, m)
  /\ feed' = timestampedValuesAfter(feed)
  /\ consumption' = timestampedValuesAfter(consumption)
  /\ argYear' = y
  /\ argMonth' = m
  /\ called' = "Einzelwert"
  /\ UNCHANGED <<year, month>>

\* kommentiert line 201
CallKommentiert(y, m) ==
  /\ called = "none"
  /\ result' = calculateMonthlyConsumption_kommentiert(feed, consumption, y, m)
  /\ feed' = getDeltaMeasuresAfter(feed, y, m)
  /\ consumption' = getDeltaMeasuresAfter(consumption, y, m)
  /\ argYear' = y
  /\ argMonth' = m
  /\ called' = "kommentiert"
  /\ UNCHANGED <<year, month>>

Next ==
  \E t \in Targets :
    \/ CallErweitert(t[1], t[2])
    \/ CallEinzelwert(t[1], t[2])
    \/ CallKommentiert(t[1], t[2])

Spec == Init /\ [][Next]_vars

----------------------------------------------------------------------------
(* Vocabulary of the properties.  It is stated on the samples of a series  *)
(* and on the UTC calendar, not on the operators above.                    *)

\* UTC calendar month of a time stamp between December 2024 and December
\* 2025, from the first seconds of the months
CalendarMonth(ts) ==
  IF ts < 1735689600 THEN <<2024, 11>>
  ELSE IF ts < 1738368000 THEN <<2025, 0>>
  ELSE IF ts < 1740787200 THEN <<2025, 1>>
  ELSE IF ts < 1743465600 THEN <<2025, 2>>
  ELSE IF ts < 1746057600 THEN <<2025, 3>>
  ELSE IF ts < 1764547200 THEN <<2025, -1>>   \* May to November: no sample
  ELSE <<2025, 11>>

Samples(series) == IF series = Undefined THEN <<>> ELSE series.items

\* positions of the samples of a month
InMonth(series, ym) ==
  {i \in 1 .. Len(Samples(series)) : CalendarMonth(Samples(series)[i].ts) = ym}

\* values of the samples of a month that carry its greatest time stamp
LatestValues(series, ym) ==
  {Samples(series)[i].value :
     i \in {k \in InMonth(series, ym) :
              \A j \in InMonth(series, ym) :
                Samples(series)[j].ts <= Samples(series)[k].ts}}

\* values of the samples of a month that carry its least time stamp
EarliestValues(series, ym) ==
  {Samples(series)[i].value :
     i \in {k \in InMonth(series, ym) :
              \A j \in InMonth(series, ym) :
                Samples(series)[k].ts <= Samples(series)[j].ts}}

Abs(x) == IF x < 0 THEN -x ELSE x

\* x rounded to hundredths, a half away from zero
Round2(x) ==
  CHOOSE d \in (x - 5) .. (x + 5) :
    /\ d % 10 = 0
    /\ Abs(d - x) <= 5
    /\ Abs(d - x) = 5 => Abs(d) > Abs(x)

TargetMonth == <<year, month>>

\* the calendar month before a month
Before(ym) ==
  LET k == 12 * ym[1] + ym[2] - 1 IN <<k \div 12, k % 12>>

PrecedingMonth == Before(TargetMonth)

\* the engine results of the call, each with its series
Sides ==
  {<<feed, result.feed_monthly>>, <<consumption, result.consumption_monthly>>}

Returned(version) == called = version /\ result.type = "object"

\* the result shapes
Empty == Num(0)

SingleSample(v, t) ==
  [type |-> "object", info |-> "Nur ein Messwert im Monat vorhanden",
   value |-> v, timestamp |-> t]

SingleSample_Einzelwert(v, t) ==
  [type |-> "object", info |-> "Nur ein Messwert vorhanden",
   value |-> v, timestamp |-> t]

FirstMeasurement(v) ==
  [type |-> "object",
   info |-> "Erstmessung - vollstaendiger Monatswert uebernommen", value |-> v]

NoChange ==
  [type |-> "object", info |-> "Keine Aenderung im Zeitraum festgestellt",
   value |-> 0]

\* the version Einzelwert has no object for a zero delta: it returns 0
DeltaResult(version, d) ==
  IF d # 0 THEN Num(d) ELSE IF version = "Erweitert" THEN NoChange ELSE Num(0)

HasDeltaCase(series) ==
  /\ Cardinality(InMonth(series, TargetMonth)) >= 2
  /\ InMonth(series, PrecedingMonth) # {}

HasFirstCase(series) ==
  /\ Cardinality(InMonth(series, TargetMonth)) >= 2
  /\ InMonth(series, PrecedingMonth) = {}

----------------------------------------------------------------------------
C2_FirstMeasurementEveryVersion ==
  \A version \in {"Erweitert", "Einzelwert"} :
    Returned(version) =>
      \A side \in Sides :
        HasFirstCase(side[1]) =>
          \E a \in LatestValues(side[1], TargetMonth) :
            side[2] = FirstMeasurement(a)

\* C2 amended: in the version Erweitert the result is the first measurement
\* with the unrounded value of the latest sample of the target month; in
\* the version Einzelwert it is the rounded difference between the latest
\* and the earliest sample of the target month.
C2_FirstMeasurement ==
  /\ Returned("Erweitert") =>
       \A side \in Sides :
         HasFirstCase(side[1]) =>
           \E a \in LatestValues(side[1], TargetMonth) :
             side[2] = FirstMeasurement(a)
  /\ Returned("Einzelwert") =>
       \A side \in Sides :
         HasFirstCase(side[1]) =>
           \E a \in LatestValues(side[1], TargetMonth),
              b \in EarliestValues(side[1], TargetMonth) :
             side[2] = Num(Round2(a - b))

\* two March samples, none of February, one of an earlier month; the value
\* 0.015 is carried with its third decimal
C2_Witness ==
  /\ Returned("Erweitert")
  /\ TargetMonth = <<2025, 2>>
  /\ HasFirstCase(feed)
  /\ InMonth(feed, <<2025, 0>>) # {}
  /\ result.feed_monthly = FirstMeasurement(15)

\* C3: with exactly one sample in the target month, whatever the other
\* months hold, getDeltaWithFallback returns the single sample result with
\* the value and the time stamp of that sample.
C3_SingleSample ==
  \A version \in {"Erweitert", "Einzelwert"} :
    Returned(version) =>
      \A side \in Sides :
        Cardinality(InMonth(side[1], TargetMonth)) = 1 =>
          \E i \in InMonth(side[1], TargetMonth) :
            side[2] = IF version = "Erweitert"
                      THEN SingleSample(Samples(side[1])[i].value,
                                        Samples(side[1])[i].ts)
                      ELSE SingleSample_Einzelwert(Samples(side[1])[i].value,
                                                   Samples(side[1])[i].ts)

\* one sample in the target month next to samples of the month before
C3_Witness ==
  /\ Returned("Erweitert")
  /\ Cardinality(InMonth(feed, TargetMonth)) = 1
  /\ Cardinality(InMonth(feed, PrecedingMonth)) = 2
  /\ result.feed_monthly.type = "object"
  /\ result.feed_monthly.info = "Nur ein Messwert im Monat vorhanden"

\* C4: getDeltaWithFallback returns the empty result (the number 0) when
\* the series is absent, has no sample or has no sample in the target
\* month, whatever the other months hold; no call ends in an error.
C4_Empty ==
  /\ called # "none" => result.type = "object"
  /\ \A version \in {"Erweitert", "Einzelwert"} :
       Returned(version) =>
         \A side \in Sides :
           InMonth(side[1], TargetMonth) = {} => side[2] = Empty

\* no sample in the target month, three in the month before
C4_Witness ==
  /\ Returned("Erweitert")
  /\ InMonth(feed, TargetMonth) = {}
  /\ Cardinality(InMonth(feed, PrecedingMonth)) = 3
  /\ result.feed_monthly = Empty

----------------------------------------------------------------------------
\* the results the rules of the version Erweitert allow for a series and a
\* target month
Admissible(series, ym) ==
  IF InMonth(series, ym) = {} THEN {Empty}
  ELSE IF Cardinality(InMonth(series, ym)) = 1
  THEN {SingleSample(Samples(series)[i].value, Samples(series)[i].ts) :
          i \in InMonth(series, ym)}
  ELSE IF InMonth(series, Before(ym)) = {}
  THEN {FirstMeasurement(a) : a \in LatestValues(series, ym)}
  ELSE {DeltaResult("Erweitert", Round2(a - b)) :
          a \in LatestValues(series, ym),
          b \in LatestValues(series, Before(ym))}

\* C5: the result of calculateMonthlyConsumption is the one for the year
\* and month passed to the call; the top-level year and month have no
\* influence.
C5_ExplicitArgumentsDecide ==
  Returned("Erweitert") =>
    \A side \in Sides : side[2] \in Admissible(side[1], <<argYear, argMonth>>)

\* C6: a call of calculateMonthlyConsumption, and with it each call of
\* getDeltaWithFallback or getDeltaMeasures, leaves the caller's series as
\* they were: the same samples in the same order.
C6_InputUnchanged == [][feed' = feed /\ consumption' = consumption]_vars

Unsorted(series) ==
  \E i, j \in 1 .. Len(Samples(series)) :
    i < j /\ Samples(series)[i].ts > Samples(series)[j].ts

\* both series are out of time order when the call returns
C6_Witness ==
  /\ Returned("Erweitert")
  /\ Unsorted(feed)
  /\ Unsorted(consumption)

\* the number the aggregation takes from an engine result
Extract(r) ==
  IF r.type = "number" THEN r.num
  ELSE IF r = NoChange THEN 0
  ELSE r.value

\* C7: net_consumption is the difference between the number taken from the
\* consumption result and the number taken from the feed result, rounded to
\* two decimals.
C7_NetConsumption ==
  Returned("Erweitert") =>
    result.net_consumption =
      Round2(Extract(result.consumption_monthly) - Extract(result.feed_monthly))

\* no change on the feed side, a first measurement of 0.015 kWh on the
\* consumption side: 0.015 - 0 rounds to 0.02
C7_Witness ==
  /\ Returned("Erweitert")
  /\ result.feed_monthly = NoChange
  /\ result.consumption_monthly = FirstMeasurement(15)
  /\ result.net_consumption = 20

HardcodedRun ==
  /\ Returned("Erweitert")
  /\ feed = feedSamples
  /\ consumption = consumptionSamples
  /\ year = 2025
  /\ month = 2

\* C8 as stated: the hardcoded series give 577.98 for feed, 23088.44 for
\* consumption and 22510.46 net for March 2025.
C8_HardcodedAsStated ==
  HardcodedRun =>
    /\ result.feed_monthly = Num(577980)
    /\ result.consumption_monthly = Num(23088440)
    /\ result.net_consumption = 22510460

\* C8 amended: the hardcoded series give 577.98 for feed, 23066.70 for
\* consumption and 22488.72 net for March 2025.  In UTC three samples lie
\* in February, two in March and three in April: the last February value is
\* 93723.98 and the last March value 116790.68.
C8_Hardcoded ==
  HardcodedRun =>
    /\ result.feed_monthly = Num(577980)
    /\ result.consumption_monthly = Num(23066700)
    /\ result.net_consumption = 22488720

C8_Witness ==
  /\ HardcodedRun
  /\ Cardinality(InMonth(consumption, <<2025, 1>>)) = 3
  /\ Cardinality(InMonth(consumption, <<2025, 2>>)) = 2
  /\ result.net_consumption = 22488720

----------------------------------------------------------------------------
EngineOf(version, series) ==
  IF version = "Erweitert"
  THEN getDeltaWithFallback(series)
  ELSE getDeltaWithFallback_Einzelwert(series)

\* every order of a sequence of at most MaxLen elements; of a longer one
\* (the hardcoded series), the orders that exchange two elements
Orders(s) ==
  IF Len(s) <= MaxLen
  THEN {[i \in 1 .. Len(s) |-> s[f[i]]] :
          f \in {g \in [1 .. Len(s) -> 1 .. Len(s)] :
                   \A i, j \in 1 .. Len(s) : i # j => g[i] # g[j]}}
  ELSE {[k \in 1 .. Len(s) |-> IF k = i THEN s[j] ELSE IF k = j THEN s[i] ELSE s[k]] :
          i, j \in 1 .. Len(s)}

\* samples under one time stamp carry one value
TiesAgree(series) ==
  \A i, j \in 1 .. Len(Samples(series)) :
    Samples(series)[i].ts = Samples(series)[j].ts
      => Samples(series)[i].value = Samples(series)[j].value

\* C9 as stated: every order of the samples of a series gives the same
\* result, also when samples share a time stamp and differ in value.
C9_AnyOrderAnySeries ==
  \A version \in {"Erweitert", "Einzelwert"} :
    Returned(version) =>
      \A side \in Sides :
        \A p \in Orders(Samples(side[1])) : EngineOf(version, Arr(p)) = side[2]

\* C9 amended: every order of the samples of a series gives the same
\* result, provided that samples sharing a time stamp also share the value.
C9_AnyOrder ==
  \A version \in {"Erweitert", "Einzelwert"} :
    Returned(version) =>
      \A side \in Sides :
        TiesAgree(side[1]) =>
          \A p \in Orders(Samples(side[1])) :
            EngineOf(version, Arr(p)) = side[2]

\* three samples out of time order, a delta between two months
C9_Witness ==
  /\ Returned("Erweitert")
  /\ Len(Samples(feed)) = 3
  /\ Unsorted(feed)
  /\ TiesAgree(feed)
  /\ HasDeltaCase(feed)
  /\ Cardinality(LatestValues(feed, TargetMonth) \cup
                 EarliestValues(feed, TargetMonth)) = 2
  /\ result.feed_monthly = Num(10)

\* C10: the baseline is the latest sample of the month (year, month - 1),
\* for January of December of the year before; samples of other months,
\* December of the target year among them, have no part in the result.
C10_BaselineMonth ==
  \A version \in {"Erweitert", "Einzelwert"} :
    Returned(version) =>
      \A side \in Sides :
        LET base == IF month = 0 THEN <<year - 1, 11>> ELSE <<year, month - 1>>
            kept == Arr(SelectSeq(Samples(side[1]),
                          LAMBDA e : CalendarMonth(e.ts) \in {TargetMonth, base}))
        IN  /\ EngineOf(version, kept) = side[2]
            /\ (Cardinality(InMonth(side[1], TargetMonth)) >= 2
                /\ InMonth(side[1], base) # {})
               => \E a \in LatestValues(side[1], TargetMonth),
                     b \in LatestValues(side[1], base) :
                    side[2] = DeltaResult(version, Round2(a - b))

\* January 2025 with two samples, December 2025 with one, December 2024
\* with none: a first measurement, not a delta against December 2025
C10_Witness ==
  /\ Returned("Erweitert")
  /\ TargetMonth = <<2025, 0>>
  /\ InMonth(feed, <<2025, 11>>) # {}
  /\ InMonth(feed, <<2024, 11>>) = {}
  /\ Cardinality(InMonth(feed, <<2025, 0>>)) = 2
  /\ result.feed_monthly = FirstMeasurement(15)

====
